---- MODULE Spec2Model ----
(***************************************************************************)
(* Model of the QR-code worker (src/worker.js): the request router         *)
(* `fetch`, the generation handler `handleQRGeneration` and the fallback   *)
(* chain `addLogoToQR`.                                                    *)
(*                                                                         *)
(* One invocation of the worker is a process that runs from one `await`    *)
(* to the next; everything between two awaits is one atomic action.  The   *)
(* worker keeps no state outside an invocation, so the state is a record   *)
(* per invocation.  The external services are the environment: when an     *)
(* awaited call returns, the environment chooses its outcome.              *)
(*                                                                         *)
(* Strings and byte buffers are sequences of tokens, so that building a    *)
(* URL, base64-encoding, JSON-encoding and text-encoding are visible in    *)
(* the values and are not the identity.                                    *)
(***************************************************************************)
EXTENDS Integers, Sequences, FiniteSets, TLC

VARIABLES req, st

vars == <<req, st>>

----------------------------------------------------------------------------
(* Bounds of the model *)

\* longest text a request carries, in characters
MaxTextLen == 1

\* the engine's limit on the number of arguments of one call, scaled down:
\* String.fromCharCode(...bytes) throws a RangeError above it
ArgLimit == 3

----------------------------------------------------------------------------
(* Text *)

\* characters a text is made of: an unreserved character, a reserved one,
\* and a lone UTF-16 surrogate (which a JSON string escape can carry and a
\* URL cannot)
LoneSurrogate == "\\uD800"
UrlChars == {"a", "&"}
Chars == UrlChars \cup {LoneSurrogate}

\* what the query string holds for one character of the `text` parameter:
\* the character itself, a percent escape, or "+"
RawChars == {"a", "%26", "+"}

RECURSIVE SeqsUpTo(_, _)
SeqsUpTo(S, n) ==
    IF n = 0 THEN {<< >>}
    ELSE LET shorter == SeqsUpTo(S, n - 1)
         IN  shorter \cup {Append(t, c) : t \in {u \in shorter : Len(u) = n - 1}, c \in S}

Texts == SeqsUpTo(Chars, MaxTextLen)
UrlTexts == SeqsUpTo(UrlChars, MaxTextLen)
RawTexts == SeqsUpTo(RawChars, MaxTextLen)

\* an optional value: << >> is null / undefined, <<v>> is the value v
None == << >>
Some(v) == <<v>>
Optional(S) == {None} \cup {Some(v) : v \in S}

HelloWorld == <<"H", "e", "l", "l", "o", " ", "W", "o", "r", "l", "d">>

\* one unit of the query string decoded
DecodeChar(c) ==
    CASE c = "+" -> " "
      [] c = "%20" -> " "
      [] c = "%26" -> "&"
      [] OTHER -> c

\* mutant: the parameter cut out of the query string and left undecoded
searchParamsGetRaw(query) == query

\* new URL(request.url).searchParams.get("text"): null when the parameter
\* is absent, else its value with "+" and the percent escapes decoded
searchParamsGet(query) ==
    IF query = None THEN None
    ELSE Some([i \in 1..Len(query[1]) |-> DecodeChar(query[1][i])])

\* mutant: `x ?? "Hello World"`, which keeps the empty string
OrHelloWorldNullish(opt) == IF opt = None THEN HelloWorld ELSE opt[1]

\* `x || "Hello World"`: null, undefined and "" are falsy
OrHelloWorld(opt) ==
    IF opt = None \/ opt[1] = << >> THEN HelloWorld ELSE opt[1]

\* encodeURIComponent throws URIError on a lone surrogate
UriMalformed(t) == \E i \in 1..Len(t) : t[i] = LoneSurrogate

\* one character (or, were an escape left undecoded, one escape) encoded
EncodeChar(c) ==
    CASE c = " " -> <<"%20">>
      [] c = "&" -> <<"%26">>
      [] c = "+" -> <<"%2B">>
      [] c = "%20" -> <<"%2520">>
      [] c = "%26" -> <<"%2526">>
      [] OTHER -> <<c>>

RECURSIVE encodeURIComponent(_)
encodeURIComponent(t) ==
    IF t = << >> THEN << >>
    ELSE EncodeChar(Head(t)) \o encodeURIComponent(Tail(t))

----------------------------------------------------------------------------
(* Requests *)

\* "PUT" stands for every method other than GET, POST and OPTIONS
Methods == {"GET", "POST", "OPTIONS", "PUT"}

\* "/other" stands for every path other than "/" and "/generate"
Paths == {"/", "/generate", "/other"}

\* what request.json() finds in the body: text that is not JSON (an empty
\* body included), the JSON value null, or a JSON object with or without a
\* `text` member
Bodies ==
    {[kind |-> "invalid", text |-> None], [kind |-> "null", text |-> None]}
        \cup {[kind |-> "object", text |-> t] : t \in Optional(Texts)}

Requests ==
    [method : Methods, path : Paths, query : Optional(RawTexts), body : Bodies]

----------------------------------------------------------------------------
(* Responses *)

Response(status, headers, body) ==
    [status |-> status, headers |-> headers, body |-> body]

NoResponse == Response(0, {}, << >>)

corsHeaders ==
    { <<"Access-Control-Allow-Origin", "*">>,
      <<"Access-Control-Allow-Methods", "GET, POST, OPTIONS">>,
      <<"Access-Control-Allow-Headers", "Content-Type">> }

\* new Response(null, { headers: corsHeaders })
PreflightResponse == Response(200, corsHeaders, << >>)

getHomePage == <<"<!DOCTYPE html>", "<html lang=\"en\">", "</html>">>

HomeResponse ==
    Response(200, {<<"Content-Type", "text/html">>} \cup corsHeaders, getHomePage)

\* a string body without a Content-Type header is sent as plain text
NotFoundResponse ==
    Response(404, {<<"Content-Type", "text/plain;charset=UTF-8">>} \cup corsHeaders,
             <<"Not Found">>)

\* JSON.stringify({ error: message })
JsonError(message) == <<"{\"error\":\"", message, "\"}">>

BadRequestResponse ==
    Response(400, {<<"Content-Type", "application/json">>} \cup corsHeaders,
             JsonError("Text parameter is required"))

\* mutant: the error response built without the CORS headers
ErrorResponseNoCors(message) ==
    Response(500, {<<"Content-Type", "application/json">>}, JsonError(message))

\* mutant: the error response built with the headers of the image response
ErrorResponseCached(message) ==
    Response(500,
             { <<"Content-Type", "application/json">>,
               <<"Cache-Control", "public, max-age=3600">> } \cup corsHeaders,
             JsonError(message))

\* the catch block of handleQRGeneration
ErrorResponse(message) ==
    Response(500, {<<"Content-Type", "application/json">>} \cup corsHeaders,
             JsonError(message))

\* new Response(finalImage, ...) of handleQRGeneration: the type is a literal
ImageResponse(finalImage) ==
    Response(200,
             { <<"Content-Type", "image/png">>,
               <<"Cache-Control", "public, max-age=3600">> } \cup corsHeaders,
             finalImage)

----------------------------------------------------------------------------
(* Payloads *)

qrSize == 300

qrUrl(text) ==
    <<"https://api.qrserver.com/v1/create-qr-code/?size=", ToString(qrSize), "x",
      ToString(qrSize), "&data=">> \o encodeURIComponent(text)
        \o <<"&format=png&margin=10">>

logoUrl ==
    "https://hebbkx1anhila5yf.public.blob.vercel-storage.com/20200329_155448-aYJ8X5J2RDJUx0CG010GkcR7kMz6b3.png"

hctiUrl == <<"https://hcti.io/v1/image">>

apiflashUrl == <<"https://api.apiflash.com/v1/urltoimage">>

\* the reference the HTML-render service answers with (result.url)
renderedUrl == <<"https://hcti.io/v1/image/rendered">>

\* a PNG body an external service delivers; a large one has more bytes than
\* one call takes arguments
PngBody(tag, large) ==
    [i \in 1..(IF large THEN ArgLimit + 1 ELSE 2) |-> IF i = 1 THEN "PNG" ELSE tag]

\* String.fromCharCode(...new Uint8Array(buffer)) throws a RangeError when
\* the buffer has more bytes than a call takes arguments
SpreadThrows(buffer) == Len(buffer) > ArgLimit

\* btoa(String.fromCharCode(...new Uint8Array(buffer)))
Base64(buffer) == <<"base64[">> \o buffer \o <<"]">>

htmlContent(qrBuffer) ==
    <<"<html>", "<img class=qr-image src=data:image/png;base64,">> \o Base64(qrBuffer)
        \o <<"<img src=", logoUrl, "</html>">>

svgContent(qrBase64, logoBase64) ==
    <<"<svg>", "<image href=data:image/png;base64,">> \o qrBase64
        \o <<"<circle>", "<image href=data:image/png;base64,">> \o logoBase64
        \o <<"</svg>">>

\* new TextEncoder().encode(svg)
TextEncode(markup) == <<"utf8[">> \o markup \o <<"]">>

\* what the bytes of a payload are, read from the payload
IsPng(bytes) == Len(bytes) > 0 /\ bytes[1] = "PNG"
IsSvgMarkup(bytes) == Len(bytes) > 1 /\ bytes[1] = "utf8[" /\ bytes[2] = "<svg>"
IsJson(bytes) == Len(bytes) > 0 /\ bytes[1] = "{\"error\":\""

----------------------------------------------------------------------------
(* The state of one invocation *)

Services == {"qr", "hcti", "img", "logo", "svg"}

\* how an awaited external call can end.  "throw": fetch rejects (network
\* error); "status": a response whose ok is false; "bodyErr": an ok response
\* whose body cannot be read (arrayBuffer() rejects); "ok": an ok response
\* with its body; "okLarge": the same with a body of more than ArgLimit bytes
QrOutcomes == {"throw", "status", "bodyErr", "ok", "okLarge"}
\* "badJson": ok, but json() rejects or yields null; "noUrl": ok, a JSON
\* object without `url`; "okUrl": ok, a JSON object with `url`
HctiOutcomes == {"throw", "status", "badJson", "noUrl", "okUrl"}
ImgOutcomes == {"throw", "status", "bodyErr", "ok"}
LogoOutcomes == {"throw", "status", "bodyErr", "ok", "okLarge"}
SvgOutcomes == {"throw", "status", "bodyErr", "ok"}

NoOutcomes == [v \in Services |-> "none"]

\* pc: "start" before fetch() runs, "json" while request.json() is awaited,
\* a service name while the call to it is awaited, "done" once fetch()
\* has returned its response.
\* oc: the outcome of each call that has returned; calls: the calls issued;
\* bodyUsed: the request body has been read (request.json() was called)
StartState ==
    [pc |-> "start", text |-> << >>, qrBuffer |-> << >>, svg |-> << >>,
     finalImage |-> << >>, oc |-> NoOutcomes, calls |-> << >>, resp |-> NoResponse,
     bodyUsed |-> FALSE]

\* messages of errors the platform raises
NetworkError == "Network connection lost."
JsonSyntaxError == "Unexpected token"
NullTypeError == "Cannot read properties of null (reading 'text')"
UriError == "URI malformed"

\* `return response` out of fetch()
Respond(s, response) == [s EXCEPT !.pc = "done", !.resp = response]

\* `await fetch(url, {body})`: the call is issued and the invocation suspends
Issue(s, service, url, body) ==
    [s EXCEPT !.pc = service,
              !.calls = Append(@, [service |-> service, url |-> url, body |-> body])]

\* the awaited call has ended with outcome o
Returned(s, service, o) == [s EXCEPT !.oc[service] = o]

----------------------------------------------------------------------------
(* handleQRGeneration and addLogoToQR, one operator per stretch of code     *)
(* between two awaits                                                       *)

\* addLogoToQR has returned `image`: the handler builds the 200 response
ReturnImage(s, image) ==
    Respond([s EXCEPT !.finalImage = image], ImageResponse(image))

\* mutant: the outer catch rethrows, and the handler answers 500
OuterCatchRethrows(s) == Respond(s, ErrorResponse("Maximum call stack size exceeded"))

\* the outer catch of addLogoToQR: return qrBuffer
OuterCatch(s) == ReturnImage(s, s.qrBuffer)

\* mutant: the `if (!text)` check left out
GenerateQRUnvalidated(s, text) ==
    LET t == [s EXCEPT !.text = text]
    IN  IF UriMalformed(text) THEN Respond(t, ErrorResponse(UriError))
        ELSE Issue(t, "qr", qrUrl(text), << >>)

\* the validation, the QR url and the call of the QR generator
GenerateQR(s, text) ==
    LET t == [s EXCEPT !.text = text]
    IN  IF text = << >> THEN Respond(t, BadRequestResponse)
        ELSE IF UriMalformed(text) THEN Respond(t, ErrorResponse(UriError))
        ELSE Issue(t, "qr", qrUrl(text), << >>)

\* mutant: `let text = "Hello World"` in place of `let text = ""`
handleQRGenerationDefaults(r, s) ==
    IF r.method = "GET" THEN GenerateQR(s, OrHelloWorld(searchParamsGet(r.query)))
    ELSE IF r.method = "POST" THEN [s EXCEPT !.pc = "json", !.bodyUsed = TRUE]
    ELSE GenerateQR(s, HelloWorld)

\* the handler up to its first await
handleQRGeneration(r, s) ==
    IF r.method = "GET" THEN GenerateQR(s, OrHelloWorld(searchParamsGet(r.query)))
    ELSE IF r.method = "POST" THEN [s EXCEPT !.pc = "json", !.bodyUsed = TRUE]
    ELSE GenerateQR(s, << >>)

\* mutant: the page path with a query string is taken for a generation
RouteHomeWithQuery(r, s) ==
    IF r.method = "OPTIONS" THEN Respond(s, PreflightResponse)
    ELSE IF r.path = "/" /\ r.query = None THEN Respond(s, HomeResponse)
    ELSE IF r.path \in {"/", "/generate"} THEN handleQRGeneration(r, s)
    ELSE Respond(s, NotFoundResponse)

\* mutant: the paths are looked at before the method
RoutePathFirst(r, s) ==
    IF r.path = "/" THEN Respond(s, HomeResponse)
    ELSE IF r.path = "/generate" THEN handleQRGeneration(r, s)
    ELSE IF r.method = "OPTIONS" THEN Respond(s, PreflightResponse)
    ELSE Respond(s, NotFoundResponse)

\* mutant: a router without the 404 branch, which serves the page instead
RouteWithoutNotFound(r, s) ==
    IF r.method = "OPTIONS" THEN Respond(s, PreflightResponse)
    ELSE IF r.path = "/generate" THEN handleQRGeneration(r, s)
    ELSE Respond(s, HomeResponse)

\* the router
Route(r, s) ==
    IF r.method = "OPTIONS" THEN Respond(s, PreflightResponse)
    ELSE IF r.path = "/" THEN Respond(s, HomeResponse)
    ELSE IF r.path = "/generate" THEN handleQRGeneration(r, s)
    ELSE Respond(s, NotFoundResponse)

\* mutant: `body?.text`, which lets a null body through
AfterJsonNullSafe(r, s) ==
    CASE r.body.kind = "invalid" -> Respond(s, ErrorResponse(JsonSyntaxError))
      [] OTHER -> GenerateQR(s, OrHelloWorld(r.body.text))

\* POST: request.json() has settled
AfterJson(r, s) ==
    CASE r.body.kind = "invalid" -> Respond(s, ErrorResponse(JsonSyntaxError))
      [] r.body.kind = "null" -> Respond(s, ErrorResponse(NullTypeError))
      [] OTHER -> GenerateQR(s, OrHelloWorld(r.body.text))

\* mutant: the logo is fetched while the HTML-render call is under way
addLogoToQRParallel(s) ==
    IF SpreadThrows(s.qrBuffer) THEN OuterCatch(s)
    ELSE Issue(Issue(s, "logo", <<logoUrl>>, << >>), "hcti", hctiUrl,
               htmlContent(s.qrBuffer))

\* addLogoToQR from its entry to the call of the HTML-render service: the
\* HTML embeds the QR bytes, and encoding them can throw
addLogoToQR(s) ==
    IF SpreadThrows(s.qrBuffer) THEN OuterCatch(s)
    ELSE Issue(s, "hcti", hctiUrl, htmlContent(s.qrBuffer))

\* mutant: the check of qrResponse.ok left out
AfterQRUnchecked(s, o) ==
    CASE o = "throw" -> Respond(s, ErrorResponse(NetworkError))
      [] o = "bodyErr" -> Respond(s, ErrorResponse(NetworkError))
      [] OTHER -> addLogoToQR([s EXCEPT !.qrBuffer = PngBody("qr", o = "okLarge")])

\* the QR generator has answered
AfterQR(s, o) ==
    CASE o = "throw" -> Respond(s, ErrorResponse(NetworkError))
      [] o = "status" -> Respond(s, ErrorResponse("Failed to generate QR code"))
      [] o = "bodyErr" -> Respond(s, ErrorResponse(NetworkError))
      [] OTHER -> addLogoToQR([s EXCEPT !.qrBuffer = PngBody("qr", o = "okLarge")])

\* after the first inner try: the QR bytes are encoded again (they were
\* encoded before without throwing) and the logo is fetched
FetchLogo(s) == Issue(s, "logo", <<logoUrl>>, << >>)

\* mutant: a result without `url` is an error that ends the pipeline
AfterHctiNoUrlEnds(s, o) ==
    IF o = "okUrl" THEN Issue(s, "img", renderedUrl, << >>)
    ELSE IF o = "noUrl" THEN OuterCatch(s)
    ELSE FetchLogo(s)

\* mutant: a rejected HTML-render call is tried a second time
AfterHctiRetries(s, o) ==
    IF o = "okUrl" THEN Issue(s, "img", renderedUrl, << >>)
    ELSE IF o = "throw" /\ Len(s.calls) < 3
         THEN Issue(s, "hcti", hctiUrl, htmlContent(s.qrBuffer))
    ELSE FetchLogo(s)

\* the HTML-render service has answered
AfterHcti(s, o) ==
    IF o = "okUrl" THEN Issue(s, "img", renderedUrl, << >>)
    ELSE FetchLogo(s)

\* mutant: the rendered image is fetched but not returned
AfterImgFallsThrough(s, o) == FetchLogo(s)

\* the fetch of the rendered image has answered
AfterImg(s, o) ==
    IF o = "ok" THEN ReturnImage(s, PngBody("rendered", FALSE))
    ELSE FetchLogo(s)

\* the SVG with the logo payload, and the call of the SVG-to-PNG service
ConvertSvg(s, logoBase64) ==
    LET markup == svgContent(Base64(s.qrBuffer), logoBase64)
    IN  Issue([s EXCEPT !.svg = markup], "svg", apiflashUrl,
              <<"data:image/svg+xml;base64,">> \o Base64(markup))

\* mutant: the logo fetch in a try of its own, a failure leaving the logo empty
AfterLogoSwallows(s, o) ==
    IF o = "ok" THEN ConvertSvg(s, Base64(PngBody("logo", FALSE)))
    ELSE ConvertSvg(s, << >>)

\* mutant: a logo answer that is not ok is thrown
AfterLogoStatusAborts(s, o) ==
    CASE o \in {"throw", "bodyErr", "status"} -> OuterCatch(s)
      [] OTHER ->
          LET logoBuffer == PngBody("logo", o = "okLarge")
          IN  IF SpreadThrows(logoBuffer) THEN OuterCatch(s)
              ELSE ConvertSvg(s, Base64(logoBuffer))

\* the logo fetch has answered
AfterLogo(s, o) ==
    CASE o \in {"throw", "bodyErr"} -> OuterCatch(s)
      [] o = "status" -> ConvertSvg(s, << >>)
      [] OTHER ->
          LET logoBuffer == PngBody("logo", o = "okLarge")
          IN  IF SpreadThrows(logoBuffer) THEN OuterCatch(s)
              ELSE ConvertSvg(s, Base64(logoBuffer))

\* mutant: a failed conversion answered with the bare QR bytes
AfterSvgFallsBackToQr(s, o) ==
    IF o = "ok" THEN ReturnImage(s, PngBody("converted", FALSE))
    ELSE ReturnImage(s, s.qrBuffer)

\* mutant: a rejected SVG-to-PNG call is issued again
AfterSvgRetries(s, o) ==
    IF o = "ok" THEN ReturnImage(s, PngBody("converted", FALSE))
    ELSE IF o = "throw" /\ Len(s.calls) < 7
         THEN Issue(s, "svg", apiflashUrl, <<"data:image/svg+xml;base64,">> \o Base64(s.svg))
    ELSE ReturnImage(s, TextEncode(s.svg))

\* the SVG-to-PNG service has answered
AfterSvg(s, o) ==
    IF o = "ok" THEN ReturnImage(s, PngBody("converted", FALSE))
    ELSE ReturnImage(s, TextEncode(s.svg))

----------------------------------------------------------------------------
(* Actions: invocation i runs from one await to the next *)

fetch(i) ==
    /\ st[i].pc = "start"
    /\ st' = [st EXCEPT ![i] = Route(req[i], st[i])]
    /\ UNCHANGED req

jsonSettled(i) ==
    /\ st[i].pc = "json"
    /\ st' = [st EXCEPT ![i] = AfterJson(req[i], st[i])]
    /\ UNCHANGED req

\* mutant: qrBuffer kept in a variable of the module, which every
\* invocation under way shares
qrSettledShared(i) ==
    /\ st[i].pc = "qr"
    /\ \E o \in QrOutcomes :
          LET new == AfterQR(Returned(st[i], "qr", o), o)
          IN  st' = [j \in DOMAIN st |->
                       IF j = i THEN new
                       ELSE IF st[j].pc \in Services \ {"qr"}
                            THEN [st[j] EXCEPT !.qrBuffer = new.qrBuffer]
                       ELSE st[j]]
    /\ UNCHANGED req

qrSettled(i) ==
    /\ st[i].pc = "qr"
    /\ \E o \in QrOutcomes : st' = [st EXCEPT ![i] = AfterQR(Returned(st[i], "qr", o), o)]
    /\ UNCHANGED req

hctiSettled(i) ==
    /\ st[i].pc = "hcti"
    /\ \E o \in HctiOutcomes :
          st' = [st EXCEPT ![i] = AfterHcti(Returned(st[i], "hcti", o), o)]
    /\ UNCHANGED req

imgSettled(i) ==
    /\ st[i].pc = "img"
    /\ \E o \in ImgOutcomes : st' = [st EXCEPT ![i] = AfterImg(Returned(st[i], "img", o), o)]
    /\ UNCHANGED req

logoSettled(i) ==
    /\ st[i].pc = "logo"
    /\ \E o \in LogoOutcomes :
          st' = [st EXCEPT ![i] = AfterLogo(Returned(st[i], "logo", o), o)]
    /\ UNCHANGED req

svgSettled(i) ==
    /\ st[i].pc = "svg"
    /\ \E o \in SvgOutcomes : st' = [st EXCEPT ![i] = AfterSvg(Returned(st[i], "svg", o), o)]
    /\ UNCHANGED req

Next ==
    \/ \E i \in DOMAIN req : fetch(i)
    \/ \E i \in DOMAIN req : jsonSettled(i)
    \/ \E i \in DOMAIN req : qrSettled(i)
    \/ \E i \in DOMAIN req : hctiSettled(i)
    \/ \E i \in DOMAIN req : imgSettled(i)
    \/ \E i \in DOMAIN req : logoSettled(i)
    \/ \E i \in DOMAIN req : svgSettled(i)

\* one invocation, any request
Init ==
    /\ req \in [{1} -> Requests]
    /\ st = [i \in {1} |-> StartState]

Spec == Init /\ [][Next]_vars

\* one invocation whose awaited calls all settle: what is awaited (the
\* request body, an external call) eventually resolves or rejects, and the
\* runtime then resumes the invocation
SpecFair == Init /\ [][Next]_vars /\ WF_vars(Next)

\* two invocations running concurrently: the same text sent once by GET, in
\* the query string as a client encodes it, and once by POST, in a JSON body
GetRequest(t) ==
    [method |-> "GET", path |-> "/generate", query |-> Some(encodeURIComponent(t)),
     body |-> [kind |-> "invalid", text |-> None]]

PostRequest(t) ==
    [method |-> "POST", path |-> "/generate", query |-> None,
     body |-> [kind |-> "object", text |-> Some(t)]]

InitPair ==
    /\ \E t \in UrlTexts \ {<< >>} : req = <<GetRequest(t), PostRequest(t)>>
    /\ st = [i \in {1, 2} |-> StartState]

SpecPair == InitPair /\ [][Next]_vars

\* two invocations running concurrently, each with a request of its own
NoBody == [kind |-> "invalid", text |-> None]

ConcRequests ==
    { GetRequest(<<"a">>),
      [GetRequest(<<"a">>) EXCEPT !.body = [kind |-> "object", text |-> Some(<<"&">>)]],
      PostRequest(<<"a">>),
      PostRequest(<<"&">>),
      [method |-> "POST", path |-> "/generate", query |-> Some(<<"a">>), body |-> NoBody],
      [method |-> "PUT", path |-> "/generate", query |-> Some(<<"a">>), body |-> NoBody],
      [method |-> "GET", path |-> "/other", query |-> None, body |-> NoBody] }

InitConc ==
    /\ req \in [{1, 2} -> ConcRequests]
    /\ st = [i \in {1, 2} |-> StartState]

SpecConc == InitConc /\ [][Next]_vars

----------------------------------------------------------------------------
(* Vocabulary of the properties *)

Invocations == DOMAIN req

Done(i) == st[i].pc = "done"

\* a GET or POST request to /generate
IsGenerate(i) == req[i].path = "/generate" /\ req[i].method \in {"GET", "POST"}

HeaderValues(response, name) == {h[2] : h \in {x \in response.headers : x[1] = name}}

IsImage(bytes) == IsPng(bytes) \/ IsSvgMarkup(bytes)

Called(i, service) == \E k \in 1..Len(st[i].calls) : st[i].calls[k].service = service

\* step 2 was attempted and did not produce the rendered image
Step2Failed(i) ==
    \/ st[i].oc["hcti"] \in {"throw", "status", "badJson", "noUrl"}
    \/ st[i].oc["img"] \in {"throw", "status", "bodyErr"}

----------------------------------------------------------------------------
(* C1 *)

\* C1 as stated: whenever the QR generator answers a GET or POST /generate
\* with a success status, the response is 200 with an image payload,
\* whatever the other services do.
C1_SuccessStatusGives200 ==
    \A i \in Invocations :
        (Done(i) /\ IsGenerate(i) /\ st[i].oc["qr"] \in {"bodyErr", "ok", "okLarge"})
            => (st[i].resp.status = 200 /\ IsImage(st[i].resp.body))

\* C1 amended: whenever the QR generator answers a GET or POST /generate
\* with a success status and its body is read, the response is 200 with an
\* image payload and never 500, for every outcome of the HTML-render
\* service, the rendered-image fetch, the logo fetch and the SVG-to-PNG
\* service: addLogoToQR never propagates an error to the handler.
C1_OverlayFailureNever500 ==
    \A i \in Invocations :
        (Done(i) /\ IsGenerate(i) /\ st[i].oc["qr"] \in {"ok", "okLarge"})
            => /\ st[i].resp.status = 200
               /\ IsImage(st[i].resp.body)
               /\ st[i].resp.body = st[i].finalImage

\* the QR generator succeeded, the rendered-image fetch and the logo fetch
\* both threw, and the response is out
C1_Witness ==
    \E i \in Invocations :
        /\ Done(i) /\ IsGenerate(i)
        /\ st[i].oc["qr"] = "ok" /\ st[i].oc["img"] = "throw" /\ st[i].oc["logo"] = "throw"
        /\ st[i].resp.status = 200

----------------------------------------------------------------------------
(* C2 *)

\* C2: when the QR generator call of a GET or POST /generate throws or
\* answers a non-success status, the response is 500 with Content-Type
\* application/json and a JSON body with an `error` string (exactly "Failed
\* to generate QR code" for a non-success status), never image bytes.
C2_PrimaryFailureIs500Json ==
    \A i \in Invocations :
        (Done(i) /\ IsGenerate(i) /\ st[i].oc["qr"] \in {"throw", "status"})
            => /\ st[i].resp.status = 500
               /\ HeaderValues(st[i].resp, "Content-Type") = {"application/json"}
               /\ IsJson(st[i].resp.body) /\ ~IsImage(st[i].resp.body)
               /\ st[i].finalImage = << >>
               /\ st[i].oc["qr"] = "status"
                     => st[i].resp.body
                           = <<"{\"error\":\"", "Failed to generate QR code", "\"}">>

C2_Witness ==
    \E i \in Invocations :
        Done(i) /\ IsGenerate(i) /\ st[i].oc["qr"] = "status" /\ st[i].resp.status = 500

----------------------------------------------------------------------------
(* C3 *)

\* C3: in every 200 response of /generate the declared Content-Type is
\* image/png when the body is PNG bytes and image/svg+xml when the body is
\* the raw SVG markup.
C3_ContentTypeMatchesPayload ==
    \A i \in Invocations :
        (Done(i) /\ IsGenerate(i) /\ st[i].resp.status = 200)
            => /\ IsPng(st[i].resp.body)
                     => HeaderValues(st[i].resp, "Content-Type") = {"image/png"}
               /\ IsSvgMarkup(st[i].resp.body)
                     => HeaderValues(st[i].resp, "Content-Type") = {"image/svg+xml"}

----------------------------------------------------------------------------
(* C4 *)

\* C4: first success wins.  When the HTML-render service answers with a
\* result reference and the fetch of it succeeds, the pipeline returns the
\* rendered bytes and neither the logo nor the SVG-to-PNG service is called
\* in that invocation; when step 2 failed and the SVG-to-PNG service
\* succeeds, its bytes are returned and not the raw SVG.
C4_FirstSuccessWins ==
    \A i \in Invocations :
        /\ (st[i].oc["hcti"] = "okUrl" /\ st[i].oc["img"] = "ok")
              => /\ Done(i)
                 /\ st[i].finalImage = <<"PNG", "rendered">>
                 /\ st[i].resp.body = <<"PNG", "rendered">>
                 /\ ~Called(i, "logo") /\ ~Called(i, "svg")
        /\ (Step2Failed(i) /\ st[i].oc["svg"] = "ok")
              => /\ Done(i)
                 /\ st[i].finalImage = <<"PNG", "converted">>
                 /\ st[i].resp.body = <<"PNG", "converted">>

C4_Witness ==
    \E i \in Invocations :
        /\ Done(i) /\ st[i].oc["hcti"] = "okUrl" /\ st[i].oc["img"] = "ok"
        /\ Len(st[i].calls) = 3

----------------------------------------------------------------------------
(* C5 *)

\* an error was raised in steps 2 to 4: a call rejected, a body or a JSON
\* result could not be read, or encoding a payload threw
QrEncodingThrew(i) == st[i].oc["qr"] = "okLarge"
LogoThrew(i) == st[i].oc["logo"] \in {"throw", "bodyErr", "okLarge"}
Step2Threw(i) ==
    st[i].oc["hcti"] \in {"throw", "badJson"} \/ st[i].oc["img"] \in {"throw", "bodyErr"}
SvgCallThrew(i) == st[i].oc["svg"] \in {"throw", "bodyErr"}

\* C5 as stated: an error raised anywhere in steps 2 to 4 (HTML-render
\* call, reading its JSON result, rendered-image fetch, logo fetch, SVG
\* construction, SVG-to-PNG call) makes the pipeline return exactly the
\* original QR bytes.
C5_AnyErrorReturnsQr ==
    \A i \in Invocations :
        (Done(i) /\ (QrEncodingThrew(i) \/ Step2Threw(i) \/ LogoThrew(i) \/ SvgCallThrew(i)))
            => st[i].finalImage = st[i].qrBuffer

\* C5 amended: an error raised outside the two inner try blocks (encoding
\* the QR bytes, the logo fetch, reading or encoding the logo bytes) is
\* caught by the outer catch and the pipeline returns exactly the original
\* QR bytes of step 1; an error of the HTML-render call, of reading its JSON
\* result or of the rendered-image fetch is caught by the first inner try
\* and the pipeline goes on to the logo fetch; an error of the SVG-to-PNG
\* call is caught by the second inner try and the raw SVG is returned.
C5_OuterCatchReturnsQr ==
    \A i \in Invocations :
        /\ (QrEncodingThrew(i) \/ LogoThrew(i))
              => /\ Done(i)
                 /\ IsPng(st[i].qrBuffer)
                 /\ st[i].finalImage = st[i].qrBuffer
                 /\ st[i].resp = ImageResponse(st[i].qrBuffer)
                 /\ ~Called(i, "svg")
        /\ Step2Threw(i) => Called(i, "logo")
        /\ SvgCallThrew(i) => (Done(i) /\ IsSvgMarkup(st[i].finalImage))

\* step 2 failed, then the logo fetch threw, and the pipeline returned
C5_Witness ==
    \E i \in Invocations :
        /\ Done(i) /\ st[i].oc["hcti"] = "status" /\ st[i].oc["logo"] = "throw"
        /\ st[i].finalImage = <<"PNG", "qr">>

----------------------------------------------------------------------------
(* C6 *)

\* the logo payload the SVG carries, from the outcome of the logo fetch
ExpectedLogoPayload(i) ==
    IF st[i].oc["logo"] = "ok" THEN <<"base64[", "PNG", "logo", "]">> ELSE << >>

\* C6: when step 2 has failed, the logo fetch has completed without
\* throwing and the SVG-to-PNG service fails, the pipeline returns the raw
\* SVG markup itself, encoded as bytes, as the response body; when that
\* service succeeds it returns the converted PNG bytes.
C6_SvgFallback ==
    \A i \in Invocations :
        (Step2Failed(i) /\ st[i].oc["logo"] \in {"ok", "status"} /\ st[i].oc["svg"] # "none")
            => /\ Done(i)
               /\ st[i].resp.status = 200
               /\ st[i].resp.body = st[i].finalImage
               /\ st[i].oc["svg"] \in {"throw", "status", "bodyErr"}
                     => st[i].finalImage
                           = <<"utf8[", "<svg>", "<image href=data:image/png;base64,",
                               "base64[", "PNG", "qr", "]", "<circle>",
                               "<image href=data:image/png;base64,">>
                               \o ExpectedLogoPayload(i) \o <<"</svg>", "]">>
               /\ st[i].oc["svg"] = "ok" => st[i].finalImage = <<"PNG", "converted">>

C6_Witness ==
    \E i \in Invocations :
        /\ Done(i) /\ Step2Failed(i) /\ st[i].oc["logo"] = "ok" /\ st[i].oc["svg"] = "status"
        /\ IsSvgMarkup(st[i].resp.body)

----------------------------------------------------------------------------
(* C7 *)

\* the request carries no text: the query parameter or the member of the
\* JSON object is absent or empty
TextMissing(i) ==
    \/ req[i].method = "GET" /\ (req[i].query = None \/ req[i].query = Some(<< >>))
    \/ /\ req[i].method = "POST" /\ req[i].body.kind = "object"
       /\ (req[i].body.text = None \/ req[i].body.text = Some(<< >>))

HelloWorldCall ==
    [service |-> "qr",
     url |-> <<"https://api.qrserver.com/v1/create-qr-code/?size=", "300", "x", "300",
               "&data=", "H", "e", "l", "l", "o", "%20", "W", "o", "r", "l", "d",
               "&format=png&margin=10">>,
     body |-> << >>]

\* C7: a GET or POST /generate without text behaves as if the text were
\* "Hello World": the QR generator is called with data "Hello World", the
\* response is never 400, and it is 200 whenever the QR source succeeds.
C7_DefaultText ==
    \A i \in Invocations :
        (req[i].path = "/generate" /\ TextMissing(i))
            => /\ st[i].resp.status # 400
               /\ st[i].pc \notin {"start", "json"}
                     => /\ st[i].text = HelloWorld
                        /\ Len(st[i].calls) >= 1
                        /\ st[i].calls[1] = HelloWorldCall
               /\ (Done(i) /\ st[i].oc["qr"] \in {"ok", "okLarge"}) => st[i].resp.status = 200

\* a POST whose JSON object has an empty text has been answered with 200
C7_Witness ==
    \E i \in Invocations :
        /\ req[i].path = "/generate" /\ req[i].method = "POST"
        /\ req[i].body = [kind |-> "object", text |-> Some(<< >>)]
        /\ Done(i) /\ st[i].resp.status = 200

----------------------------------------------------------------------------
(* C8 *)

PayloadKind(bytes) ==
    IF IsPng(bytes) THEN "png"
    ELSE IF IsSvgMarkup(bytes) THEN "svg"
    ELSE IF IsJson(bytes) THEN "json"
    ELSE "other"

OutcomeClass(i) ==
    <<st[i].resp.status, HeaderValues(st[i].resp, "Content-Type"),
      PayloadKind(st[i].resp.body)>>

\* the two invocations met the same outcome at every service both called:
\* they ran under one assignment of outcomes to the services
SameOutcomes(i, j) ==
    \A v \in Services :
        (st[i].oc[v] # "none" /\ st[j].oc[v] # "none") => st[i].oc[v] = st[j].oc[v]

\* C8: for a non-empty text and one assignment of outcomes to the external
\* services, GET /generate?text=T and POST /generate {"text": T} issue the
\* same sequence of external calls and yield the same status, content type
\* and payload kind.  (Invocation 1 is the GET, invocation 2 the POST.)
C8_MethodInvariance ==
    (Done(1) /\ Done(2) /\ SameOutcomes(1, 2))
        => /\ st[1].text = st[2].text
           /\ st[1].calls = st[2].calls
           /\ st[1].oc = st[2].oc
           /\ OutcomeClass(1) = OutcomeClass(2)

\* both answered a text with a reserved character, by the SVG fallback
C8_Witness ==
    /\ req[1].method = "GET" /\ req[2].method = "POST"
    /\ req[2].body.text = Some(<<"&">>)
    /\ Done(1) /\ Done(2) /\ SameOutcomes(1, 2)
    /\ st[1].oc["svg"] = "status" /\ st[2].oc["svg"] = "status"

----------------------------------------------------------------------------
(* C9 *)

\* C9: every response of the worker, on every branch, carries the three
\* CORS headers.
C9_CorsOnEveryResponse ==
    \A i \in Invocations :
        Done(i)
            => /\ <<"Access-Control-Allow-Origin", "*">> \in st[i].resp.headers
               /\ <<"Access-Control-Allow-Methods", "GET, POST, OPTIONS">>
                     \in st[i].resp.headers
               /\ <<"Access-Control-Allow-Headers", "Content-Type">> \in st[i].resp.headers
               /\ \A name \in {"Access-Control-Allow-Origin", "Access-Control-Allow-Methods",
                               "Access-Control-Allow-Headers"} :
                      Cardinality(HeaderValues(st[i].resp, name)) = 1

\* a 500 response is out
C9_Witness ==
    \E i \in Invocations :
        /\ Done(i) /\ st[i].resp.status = 500
        /\ <<"Access-Control-Allow-Origin", "*">> \in st[i].resp.headers

----------------------------------------------------------------------------
(* C10 *)

\* C10 as stated: a request whose path is neither "/" nor "/generate"
\* receives 404 with the body "Not Found", whatever its method.
C10_UnknownPathAlways404 ==
    \A i \in Invocations :
        (Done(i) /\ req[i].path \notin {"/", "/generate"})
            => (st[i].resp.status = 404 /\ st[i].resp.body = <<"Not Found">>)

\* C10 amended: a request whose path is neither "/" nor "/generate"
\* receives 404 with the plain-text body "Not Found", whatever its method
\* other than OPTIONS; it makes no external call.  (An OPTIONS request
\* receives the preflight response on every path.)
C10_UnknownPath404 ==
    \A i \in Invocations :
        (req[i].path \notin {"/", "/generate"} /\ req[i].method # "OPTIONS")
            => /\ st[i].pc \in {"start", "done"}
               /\ st[i].calls = << >>
               /\ Done(i)
                     => /\ st[i].resp.status = 404
                        /\ st[i].resp.body = <<"Not Found">>
                        /\ HeaderValues(st[i].resp, "Content-Type")
                              = {"text/plain;charset=UTF-8"}

C10_Witness ==
    \E i \in Invocations :
        /\ Done(i) /\ req[i].path = "/other" /\ req[i].method = "PUT"
        /\ st[i].resp.status = 404

----------------------------------------------------------------------------
(* C11 *)

\* C11: an OPTIONS request to any path returns a success status with an
\* empty body and the three CORS headers, makes no external call and does
\* not read the request body.
C11_Preflight ==
    \A i \in Invocations :
        req[i].method = "OPTIONS"
            => /\ st[i].pc \in {"start", "done"}
               /\ st[i].calls = << >>
               /\ ~st[i].bodyUsed
               /\ Done(i)
                     => /\ st[i].resp.status = 200
                        /\ st[i].resp.body = << >>
                        /\ st[i].resp.headers
                              = { <<"Access-Control-Allow-Origin", "*">>,
                                  <<"Access-Control-Allow-Methods", "GET, POST, OPTIONS">>,
                                  <<"Access-Control-Allow-Headers", "Content-Type">> }

\* an OPTIONS request to /generate that carries a text has been answered
C11_Witness ==
    \E i \in Invocations :
        /\ req[i].method = "OPTIONS" /\ req[i].path = "/generate"
        /\ req[i].body = [kind |-> "object", text |-> Some(<<"a">>)]
        /\ Done(i) /\ st[i].resp.status = 200

----------------------------------------------------------------------------
(* C12 *)

\* the `data` parameter of a QR generator url
QrUrlData(url) == SubSeq(url, 6, Len(url) - 1)

----------------------------------------------------------------------------
(* C13 *)

\* the SVG with the QR bytes and an empty logo payload
SvgWithEmptyLogo ==
    <<"<svg>", "<image href=data:image/png;base64,", "base64[", "PNG", "qr", "]",
      "<circle>", "<image href=data:image/png;base64,", "</svg>">>

\* C13: when step 2 has failed and the logo fetch returns a non-success
\* status, step 3 does not abort: the SVG is built with an empty logo
\* payload and the SVG-to-PNG conversion is still attempted, so the result
\* is the converted PNG or the raw SVG, not the bare QR bytes and not an
\* error.
C13_LogoStatusKeepsStep3 ==
    \A i \in Invocations :
        (Step2Failed(i) /\ st[i].oc["logo"] = "status")
            => /\ st[i].svg = SvgWithEmptyLogo
               /\ Called(i, "svg")
               /\ st[i].calls[Len(st[i].calls)].service = "svg"
               /\ st[i].calls[Len(st[i].calls)].body
                     = <<"data:image/svg+xml;base64,", "base64[">> \o SvgWithEmptyLogo
                          \o <<"]">>
               /\ st[i].oc["svg"] = "none" => (st[i].pc = "svg" /\ st[i].resp.status = 0)
               /\ Done(i)
                     => /\ st[i].resp.status = 200
                        /\ st[i].finalImage # st[i].qrBuffer
                        /\ st[i].resp.body = st[i].finalImage
                        /\ \/ st[i].finalImage = <<"PNG", "converted">>
                           \/ st[i].finalImage = <<"utf8[">> \o SvgWithEmptyLogo \o <<"]">>

\* the logo answered 404 and the raw SVG was returned
C13_Witness ==
    \E i \in Invocations :
        /\ Done(i) /\ Step2Failed(i) /\ st[i].oc["logo"] = "status"
        /\ st[i].oc["svg"] = "throw" /\ IsSvgMarkup(st[i].resp.body)

----------------------------------------------------------------------------
(* C14 *)

CallsTo(i, service) ==
    Cardinality({k \in 1..Len(st[i].calls) : st[i].calls[k].service = service})

\* C14: within one request each external endpoint is called at most once:
\* there is no retry, a request makes at most five external calls and a
\* failed call is never reissued.
C14_NoRetry ==
    \A i \in Invocations :
        /\ Len(st[i].calls) <= 5
        /\ \A v \in Services :
              /\ CallsTo(i, v) <= 1
              /\ st[i].oc[v] # "none" => (CallsTo(i, v) = 1 /\ st[i].pc # v)

\* five calls were made and the last one failed
C14_Witness ==
    \E i \in Invocations :
        /\ Done(i) /\ Len(st[i].calls) = 5
        /\ st[i].oc["hcti"] = "okUrl" /\ st[i].oc["img"] = "throw"
        /\ st[i].oc["svg"] = "throw"

----------------------------------------------------------------------------
(* C15 *)

\* the fixed order of the external calls
Rank(service) ==
    CASE service = "qr" -> 1
      [] service = "hcti" -> 2
      [] service = "img" -> 3
      [] service = "logo" -> 4
      [] service = "svg" -> 5

\* calls of invocation i that have settled
Settled(i) == Cardinality({v \in Services : st[i].oc[v] # "none"})

\* C15: within one request the external calls are strictly sequential and
\* occur in the order QR generator, HTML-render service, rendered-image
\* fetch, logo fetch, SVG-to-PNG service: a call is issued only after the
\* previous one has completed, at most one call is in flight at any time,
\* and no overlay, logo or conversion call is issued unless the QR generator
\* call has returned a success status.
C15_SequentialCalls ==
    \A i \in Invocations :
        /\ \A k, l \in 1..Len(st[i].calls) :
              k < l => Rank(st[i].calls[k].service) < Rank(st[i].calls[l].service)
        /\ \A k \in 1..(Len(st[i].calls) - 1) : st[i].oc[st[i].calls[k].service] # "none"
        /\ Len(st[i].calls) - Settled(i) \in {0, 1}
        /\ Len(st[i].calls) - Settled(i) = 1
              <=> /\ st[i].pc \in Services
                  /\ st[i].calls[Len(st[i].calls)].service = st[i].pc
        /\ \A v \in Services \ {"qr"} :
              Called(i, v) => (Rank(st[i].calls[1].service) = 1 /\ st[i].oc["qr"] = "ok")

\* the fifth call is in flight, the four before it have settled
C15_Witness ==
    \E i \in Invocations :
        /\ st[i].pc = "svg" /\ Len(st[i].calls) = 5 /\ Settled(i) = 4

----------------------------------------------------------------------------
(* C16 *)

\* C16: every failure of step 2 leads to step 3 being attempted: if the
\* HTML-render call throws, returns a non-success status or a result
\* without `url`, or the fetch of the rendered image throws or returns a
\* non-success status, the pipeline proceeds to the logo fetch and the SVG
\* construction rather than returning or raising at that point.
C16_Step2FailureReachesStep3 ==
    \A i \in Invocations :
        Step2Failed(i)
            => /\ Called(i, "logo")
               /\ st[i].oc["logo"] = "none"
                     => /\ st[i].pc = "logo"
                        /\ st[i].resp.status = 0
                        /\ st[i].finalImage = << >>
               /\ st[i].oc["logo"] \in {"ok", "status"}
                     => /\ Called(i, "svg")
                        /\ Len(st[i].svg) > 0 /\ st[i].svg[1] = "<svg>"

\* the HTML-render service answered without `url` and the logo is fetched
C16_Witness ==
    \E i \in Invocations :
        st[i].oc["hcti"] = "noUrl" /\ st[i].pc = "logo" /\ Len(st[i].calls) = 3

----------------------------------------------------------------------------
(* C17 *)

\* a request to /generate whose method is none of GET, POST and OPTIONS
OtherMethodGenerate(i) ==
    req[i].path = "/generate" /\ req[i].method \notin {"GET", "POST", "OPTIONS"}

\* C17 as stated: no request to the worker, of any method, path, query
\* string or body, produces a response with status 400.
C17_Never400 == \A i \in Invocations : st[i].resp.status # 400

\* C17 amended: no GET, POST or OPTIONS request and no request to a path
\* other than /generate produces a response with status 400; a request to
\* /generate with any other method (PUT, DELETE, ...) leaves the text empty
\* and is answered 400 "Text parameter is required", without an external
\* call.
C17_400OnlyForOtherMethods ==
    \A i \in Invocations :
        /\ st[i].resp.status = 400 => OtherMethodGenerate(i)
        /\ OtherMethodGenerate(i)
              => /\ st[i].calls = << >>
                 /\ ~st[i].bodyUsed
                 /\ Done(i)
                       => /\ st[i].resp.status = 400
                          /\ st[i].resp.body
                                = <<"{\"error\":\"", "Text parameter is required", "\"}">>
                          /\ HeaderValues(st[i].resp, "Content-Type") = {"application/json"}

\* a PUT /generate that carries a text has been answered 400
C17_Witness ==
    \E i \in Invocations :
        /\ req[i].method = "PUT" /\ req[i].path = "/generate"
        /\ req[i].query = Some(<<"a">>)
        /\ Done(i) /\ st[i].resp.status = 400

----------------------------------------------------------------------------
(* C18 *)

\* C18: a POST /generate whose body cannot be parsed as JSON, or parses to
\* null, is answered with status 500 and a JSON body {"error": message}
\* (not 400), and no external service is called for that request.
C18_MalformedBodyIs500 ==
    \A i \in Invocations :
        (req[i].path = "/generate" /\ req[i].method = "POST"
            /\ req[i].body.kind \in {"invalid", "null"})
            => /\ st[i].calls = << >>
               /\ st[i].pc \in {"start", "json", "done"}
               /\ Done(i)
                     => /\ st[i].resp.status = 500
                        /\ HeaderValues(st[i].resp, "Content-Type") = {"application/json"}
                        /\ Len(st[i].resp.body) = 3
                        /\ st[i].resp.body[1] = "{\"error\":\""
                        /\ st[i].resp.body[2] \in {JsonSyntaxError, NullTypeError}
                        /\ st[i].resp.body[3] = "\"}"

\* a POST /generate with the body `null` has been answered
C18_Witness ==
    \E i \in Invocations :
        /\ req[i].path = "/generate" /\ req[i].method = "POST"
        /\ req[i].body.kind = "null" /\ st[i].bodyUsed
        /\ Done(i) /\ st[i].resp.status = 500

----------------------------------------------------------------------------
(* C20 *)

\* C20: a non-OPTIONS request to "/" returns 200 with the static HTML page
\* and Content-Type text/html, whatever its query string and body, makes no
\* external call and does not read the request body; only requests routed
\* to /generate ever make external calls.
C20_HomePage ==
    \A i \in Invocations :
        /\ (req[i].path = "/" /\ req[i].method # "OPTIONS")
              => /\ st[i].pc \in {"start", "done"}
                 /\ st[i].calls = << >>
                 /\ ~st[i].bodyUsed
                 /\ Done(i)
                       => /\ st[i].resp.status = 200
                          /\ st[i].resp.body = getHomePage
                          /\ HeaderValues(st[i].resp, "Content-Type") = {"text/html"}
        /\ (st[i].calls # << >> \/ st[i].pc \in Services \/ st[i].bodyUsed)
              => (req[i].path = "/generate" /\ req[i].method \in {"GET", "POST"})

\* a POST to "/" with a text in the query string and in the body got the page
C20_Witness ==
    \E i \in Invocations :
        /\ req[i].path = "/" /\ req[i].method = "POST"
        /\ req[i].query = Some(<<"a">>)
        /\ req[i].body = [kind |-> "object", text |-> Some(<<"a">>)]
        /\ Done(i) /\ st[i].resp.status = 200

----------------------------------------------------------------------------
(* C19 *)

\* what of a request the code reads: the method, the path, and the text
\* where the method has one (the query parameter of a GET, the body of a
\* POST)
ReadOfRequest(r) ==
    <<r.method, r.path,
      IF r.method = "GET" THEN searchParamsGet(r.query) ELSE None,
      IF r.method = "POST" THEN r.body ELSE NoBody>>

\* C19: requests are independent.  With the awaits of concurrent
\* invocations interleaved in any order, a step of one invocation leaves the
\* state of every other invocation as it was, and the response (and the
\* calls) of an invocation are a function of its own method, path and text
\* and of the outcomes of its own external calls.
C19_Independent ==
    /\ [](\A i, j \in Invocations :
            (Done(i) /\ Done(j) /\ ReadOfRequest(req[i]) = ReadOfRequest(req[j])
                /\ st[i].oc = st[j].oc)
                => (st[i].resp = st[j].resp /\ st[i].calls = st[j].calls))
    /\ [][\E i \in Invocations :
             /\ st'[i] # st[i]
             /\ \A j \in Invocations \ {i} : st'[j] = st[j]]_vars

\* two invocations with different requests have both been answered by the
\* outer catch, their awaits interleaved
C19_Witness ==
    /\ req[1].method = "GET" /\ req[2].method = "POST" /\ req[2].body.text = Some(<<"&">>)
    /\ Done(1) /\ Done(2)
    /\ st[1].oc["logo"] = "throw" /\ st[2].oc["logo"] = "bodyErr"
    /\ st[1].calls # st[2].calls

----------------------------------------------------------------------------
(* C21 *)

\* the awaits an invocation can still pass before its response, at most
StepsLeft(s) ==
    CASE s.pc = "start" -> 7
      [] s.pc = "json" -> 6
      [] s.pc = "qr" -> 5
      [] s.pc = "hcti" -> 4
      [] s.pc = "img" -> 3
      [] s.pc = "logo" -> 2
      [] s.pc = "svg" -> 1
      [] s.pc = "done" -> 0

\* C21: termination.  When every awaited call eventually returns or fails,
\* every request eventually receives exactly one response, after a bounded
\* number of steps and at most five external calls; no request is left
\* without a response or answered twice.
C21_Termination ==
    /\ <>(\A i \in Invocations : Done(i) /\ st[i].resp.status # 0)
    /\ [](\A i \in Invocations :
            /\ Len(st[i].calls) <= 5
            /\ Done(i) <=> st[i].resp # NoResponse)
    /\ [][\A i \in Invocations :
             /\ st'[i] # st[i] => StepsLeft(st'[i]) < StepsLeft(st[i])
             /\ st[i].resp # NoResponse => st'[i] = st[i]]_vars

\* a request answered after five external calls
C21_Witness ==
    \E i \in Invocations :
        Done(i) /\ Len(st[i].calls) = 5 /\ st[i].resp.status = 200

----------------------------------------------------------------------------
(* C22 *)

CacheControl(i) == HeaderValues(st[i].resp, "Cache-Control")

\* C22: every 200 image response of /generate carries Cache-Control: public,
\* max-age=3600, whichever fallback stage produced the body; every error
\* response (400, 500, 404) and the OPTIONS response carry no Cache-Control.
C22_CacheOnlyOnImages ==
    \A i \in Invocations :
        Done(i) =>
            /\ IsGenerate(i) /\ st[i].resp.status = 200
                   => CacheControl(i) = {"public, max-age=3600"}
            /\ st[i].resp.status \in {400, 500, 404} \/ req[i].method = "OPTIONS"
                   => CacheControl(i) = {}

\* the last fallback stage, the raw SVG markup, answered as a cacheable image
C22_Witness ==
    \E i \in Invocations :
        /\ Done(i) /\ IsGenerate(i) /\ st[i].resp.status = 200
        /\ st[i].oc["svg"] \in {"throw", "status", "bodyErr"}
        /\ IsSvgMarkup(st[i].resp.body)
        /\ CacheControl(i) = {"public, max-age=3600"}

====
